---- MODULE Spec2Model ----
(***************************************************************************)
(* A model of the Miro startup sequencer (tv/portable/startup.py) and of   *)
(* the preference store (tv/portable/config.py).                           *)
(*                                                                         *)
(*   Spec        the startup sequencer: the frontend thread calls          *)
(*               install_movies_gone_handler() and startup(); the event    *)
(*               loop thread runs finish_startup, finalize_startup and     *)
(*               parse_command_line_args one statement at a time, and      *)
(*               every statement that calls a collaborator either returns  *)
(*               or raises.                                                *)
(*   SpecFair    Spec with weak fairness of the event loop thread.         *)
(*   SpecConfig  the preference store used by several threads, one         *)
(*               statement of config.py per step.                          *)
(***************************************************************************)
EXTENDS Integers, Sequences, FiniteSets, TLC

VARIABLES
    \* ---- startup.py ----
    movies_gone_handler,  \* startup.__movies_gone_handler
    started,              \* startup() has been called
    queue,                \* the event loop's pending calls, next one first
    pc,                   \* the statement the event loop thread is at
    fstep,                \* index into FinalizeSteps while in finalize_startup
    nested,               \* finalize_startup was called by a movies-gone handler
    signals,              \* signals.system: the signals emitted so far, in order
    liveStorage,          \* database.defaultDatabase.liveStorage is set
    filtersRecomputed,    \* database.defaultDatabase.recomputeFilters() returned
    goneChecked,          \* movies_directory_gone() has returned
    gone,                 \* ... and this is what it returned
    moviesDirPref,        \* config.get(prefs.MOVIES_DIRECTORY), expanded
    moviesDirState,       \* the file system at that path
    remoteDownloads,      \* views.remoteDownloads
    raised,               \* the exceptions raised so far: <<function, kind>>
    escaped,              \* exceptions that reached the event loop's task runner
    handlerCalls,         \* the movies-gone handlers invoked so far, in order
    finalizeScheduled,    \* how often finalize_startup was put on the event loop
    finalizeDone,         \* the steps of finalize_startup completed so far
    parsed,               \* parse_command_line_args has run
    \* ---- config.py ----
    data,                 \* config.__data: None or a dict
    lock,                 \* config.__lock: the thread holding it, or Free
    callbacks,            \* config.__callbacks
    persisted,            \* what platformcfg.load() returns: None or a dict
    imported,             \* the import of config.py (line 82) has finished
    tpc,                  \* per thread: the statement of config.py it is at
    retTo,                \* per thread: where load() returns to
    desc,                 \* per thread: the descriptor argument of get/set
    arg,                  \* per thread: the value argument of set
    value,                \* per thread: the local variable value of get
    todo,                 \* per thread: callbacks __notifyListeners has yet to call
    iterSize,             \* per thread: len(__callbacks) when its loop began
    failed,               \* the exceptions that left a store call: <<thread, kind>>
    lastSet,              \* per key: the value set() wrote since the last load
    everSet,              \* the keys set() has written so far
    unlocked,             \* accesses to __data / __callbacks made without the lock
    invoked,              \* per thread: the callbacks its set() call has called: <<cb, key, value>>
    inCallback,           \* per thread: it is inside a callback that called back into the store
    registrations,        \* per callback: addChangeCallback calls since it was last removed
    \* the feeds of the database
    feeds,                \* views.feeds: the feed objects, in the order the view gives them
    restoredFeeds,        \* the feeds the database held when it was restored
    warnings              \* the messages passed to signals.system.failed

startupVars == <<movies_gone_handler, started, queue, pc, fstep, nested, signals,
                 liveStorage, filtersRecomputed, goneChecked, gone,
                 moviesDirPref, moviesDirState, remoteDownloads,
                 raised, escaped, handlerCalls, finalizeScheduled,
                 finalizeDone, parsed>>

configVars == <<data, lock, callbacks, persisted, imported, tpc, retTo, desc, arg,
                value, todo, iterSize, failed, lastSet, everSet, unlocked,
                invoked, inCallback, registrations>>

feedVars == <<feeds, restoredFeeds, warnings>>

vars == <<startupVars, configVars, feedVars>>

----------------------------------------------------------------------------
(* Bounds *)

\* the longest views.remoteDownloads list that is enumerated
MaxDownloads == 2

\* how often addChangeCallback is called for one callback before it is removed
MaxRegistrations == 2

\* the most feeds the restored database holds
MaxFeeds == 3

----------------------------------------------------------------------------
(* Paths: a path is a sequence of one-character strings *)

Sep == "/"

EndsWith(s, c) == Len(s) > 0 /\ s[Len(s)] = c

StartsWith(s, p) == Len(p) <= Len(s) /\ SubSeq(s, 1, Len(p)) = p

\* the values config.get(prefs.MOVIES_DIRECTORY) is drawn from
MoviesDirPrefs == { <<"/", "m">>, <<"/", "m", "/">> }

\* the values downloader_.getFilename() is drawn from: one under /m/, one
\* that shares the prefix /m but lies in another directory, one elsewhere
Filenames == { <<"/", "m", "/", "a">>, <<"/", "m", "x", "/", "a">>, <<"/", "o", "/", "a">> }

Downloaders == [finished : BOOLEAN, filename : Filenames]

RECURSIVE SeqsUpTo(_, _)
SeqsUpTo(S, n) ==
    IF n = 0 THEN { <<>> }
    ELSE LET shorter == SeqsUpTo(S, n - 1)
         IN  shorter \cup { Append(s, x) : s \in { t \in shorter : Len(t) = n - 1 }, x \in S }

\* what os.path.exists / os.listdir find at the movies directory
DirStates ==
    { [exists |-> FALSE, listable |-> FALSE, contents |-> <<>>],
      [exists |-> TRUE,  listable |-> FALSE, contents |-> <<>>],
      [exists |-> TRUE,  listable |-> TRUE,  contents |-> <<>>],
      [exists |-> TRUE,  listable |-> TRUE,  contents |-> <<"f">>] }

----------------------------------------------------------------------------
(* movies_directory_gone *)

\* lines 221-223
MoviesDir(pref) == IF EndsWith(pref, Sep) THEN pref ELSE Append(pref, Sep)

\* the loop of lines 242-245 with the isFinished() test left out
RECURSIVE AnyUnder(_, _)
AnyUnder(dls, movies_dir) ==
    IF dls = <<>> THEN FALSE
    ELSE IF StartsWith(Head(dls).filename, movies_dir) THEN TRUE
    ELSE AnyUnder(Tail(dls), movies_dir)

\* lines 242-247: the loop over views.remoteDownloads
RECURSIVE AnyFinishedUnder(_, _)
AnyFinishedUnder(dls, movies_dir) ==
    IF dls = <<>> THEN FALSE
    ELSE IF Head(dls).finished /\ StartsWith(Head(dls).filename, movies_dir) THEN TRUE
    ELSE AnyFinishedUnder(Tail(dls), movies_dir)

\* lines 226-238 with the "if contents" test left out
DirectoryLooksGoneNoContents(dir) ==
    IF ~dir.exists THEN "gone"
    ELSE IF ~dir.listable THEN "gone"
    ELSE "ask_downloads"

\* lines 226-238: what the file system alone decides
DirectoryLooksGone(dir) ==
    IF ~dir.exists THEN "gone"              \* line 227-228
    ELSE IF ~dir.listable THEN "gone"       \* line 231-233, OSError
    ELSE IF dir.contents # <<>> THEN "present"  \* line 235-238
    ELSE "ask_downloads"

\* lines 215-247
movies_directory_gone(pref, dir, dls) ==
    LET movies_dir == MoviesDir(pref)
        fs == DirectoryLooksGone(dir)
    IN  IF fs = "gone" THEN TRUE
        ELSE IF fs = "present" THEN FALSE
        ELSE AnyFinishedUnder(dls, movies_dir)

----------------------------------------------------------------------------
(* Signals and exceptions *)

Failure(summary, description) ==
    [name |-> "startup_failure", summary |-> summary, description |-> description]

Success == [name |-> "startup_success", summary |-> "", description |-> ""]

\* line 161: raise StartupError(summary, description)
DatabaseTooNew ==
    [kind |-> "StartupError", summary |-> "Database too new",
     description |-> "You have a database that was saved with a newer version"]

\* any exception that is not a StartupError
OtherError == [kind |-> "Exception", summary |-> "", description |-> ""]

\* wrapped() catching nothing but StartupError
startup_function_only_startup_error(e) ==
    IF e.kind = "StartupError"
    THEN [emit |-> << Failure(e.summary, e.description) >>, propagate |-> FALSE]
    ELSE [emit |-> << >>, propagate |-> TRUE]

\* wrapped() reporting every exception with the generic message
startup_function_all_generic(e) ==
    [emit |-> << Failure("Unknown Error", "An unknown error prevented Miro from startup") >>,
     propagate |-> FALSE]

\* lines 81-93: what wrapped() does with an exception e raised by func
startup_function(e) ==
    IF e.kind = "StartupError"
    THEN [emit |-> << Failure(e.summary, e.description) >>, propagate |-> FALSE]
    ELSE [emit |-> << Failure("Unknown Error", "An unknown error prevented Miro from startup") >>,
          propagate |-> FALSE]

\* An exception e raised in fn travels up the call stack: the wrapper of fn
\* sees it first; when finalize_startup was called by a movies-gone handler
\* inside finish_startup and its wrapper lets e through, finish_startup's
\* wrapper sees it next.
Unwind(fn, e) ==
    LET inner == startup_function(e)
    IN  IF fn = "finalize_startup" /\ nested /\ inner.propagate
        THEN LET outer == startup_function(e)
             IN  [emit |-> inner.emit \o outer.emit, propagate |-> outer.propagate]
        ELSE inner

\* fn raises e at the statement the event loop thread is at
Raise(fn, e) ==
    LET w == Unwind(fn, e)
    IN  /\ raised' = raised \cup { <<fn, e.kind>> }
        /\ signals' = signals \o w.emit
        /\ escaped' = escaped \cup (IF w.propagate THEN { fn } ELSE {})
        /\ pc' = "idle"
        /\ nested' = FALSE

----------------------------------------------------------------------------
(* The frontend thread *)

Handlers == { "default_movies_gone_handler", "frontend_continue", "frontend_abort" }

\* lines 263-273
install_movies_gone_handler(callback) ==
    /\ movies_gone_handler # callback
    /\ movies_gone_handler' = callback
    /\ UNCHANGED <<configVars, feedVars, started, queue, pc, fstep, nested, signals, liveStorage,
                   filtersRecomputed, goneChecked, gone, moviesDirPref,
                   moviesDirState, remoteDownloads, raised, escaped,
                   handlerCalls, finalizeScheduled, finalizeDone, parsed>>

\* lines 122-144: eventloop.startup(); eventloop.addIdle(finish_startup, ...)
startup ==
    /\ ~started
    /\ started' = TRUE
    /\ queue' = Append(queue, "finish_startup")
    /\ UNCHANGED <<configVars, feedVars, movies_gone_handler, pc, fstep, nested, signals, liveStorage,
                   filtersRecomputed, goneChecked, gone, moviesDirPref,
                   moviesDirState, remoteDownloads, raised, escaped,
                   handlerCalls, finalizeScheduled, finalizeDone, parsed>>

----------------------------------------------------------------------------
(* The event loop thread: taking the next call off the queue *)

RunFinishStartup ==
    /\ pc = "idle" /\ queue # <<>> /\ Head(queue) = "finish_startup"
    /\ queue' = Tail(queue)
    /\ pc' = "fs_views"
    /\ UNCHANGED <<configVars, feedVars, movies_gone_handler, started, fstep, nested, signals, liveStorage,
                   filtersRecomputed, goneChecked, gone, moviesDirPref,
                   moviesDirState, remoteDownloads, raised, escaped,
                   handlerCalls, finalizeScheduled, finalizeDone, parsed>>

RunFinalizeStartup ==
    /\ pc = "idle" /\ queue # <<>> /\ Head(queue) = "finalize_startup"
    /\ queue' = Tail(queue)
    /\ pc' = "finalize"
    /\ fstep' = 1
    /\ nested' = FALSE
    /\ UNCHANGED <<configVars, feedVars, movies_gone_handler, started, signals, liveStorage,
                   filtersRecomputed, goneChecked, gone, moviesDirPref,
                   moviesDirState, remoteDownloads, raised, escaped,
                   handlerCalls, finalizeScheduled, finalizeDone, parsed>>

RunParseCommandLineArgs ==
    /\ pc = "idle" /\ queue # <<>> /\ Head(queue) = "parse_command_line_args"
    /\ queue' = Tail(queue)
    /\ parsed' = TRUE
    /\ UNCHANGED <<configVars, feedVars, movies_gone_handler, started, pc, fstep, nested, signals,
                   liveStorage, filtersRecomputed, goneChecked, gone,
                   moviesDirPref, moviesDirState, remoteDownloads, raised,
                   escaped, handlerCalls, finalizeScheduled, finalizeDone>>

----------------------------------------------------------------------------
(* finish_startup, lines 146-167 *)

\* the environment the startup sequencer reads and never writes
env == <<moviesDirPref, moviesDirState, remoteDownloads>>

\* line 148: views.initialize()
FinishViewsInitialize ==
    /\ pc = "fs_views"
    /\ \/ /\ pc' = "fs_restore"
          /\ UNCHANGED <<nested, signals, raised, escaped>>
       \/ Raise("finish_startup", OtherError)
    /\ UNCHANGED <<configVars, feedVars, movies_gone_handler, started, queue, fstep, liveStorage,
                   filtersRecomputed, goneChecked, gone, env, handlerCalls,
                   finalizeScheduled, finalizeDone, parsed>>

\* lines 151-161: storedatabase.LiveStorage() returns, raises
\* DatabaseTooNewError (turned into a StartupError) or raises something else
FinishRestore ==
    /\ pc = "fs_restore"
    /\ \/ /\ liveStorage' = TRUE
          /\ pc' = "fs_recompute"
          /\ UNCHANGED <<nested, signals, raised, escaped>>
       \/ /\ Raise("finish_startup", DatabaseTooNew)
          /\ UNCHANGED liveStorage
       \/ /\ Raise("finish_startup", OtherError)
          /\ UNCHANGED liveStorage
    /\ UNCHANGED <<configVars, feedVars, movies_gone_handler, started, queue, fstep,
                   filtersRecomputed, goneChecked, gone, env, handlerCalls,
                   finalizeScheduled, finalizeDone, parsed>>

\* line 162: database.defaultDatabase.recomputeFilters()
FinishRecomputeFilters ==
    /\ pc = "fs_recompute"
    /\ \/ /\ filtersRecomputed' = TRUE
          /\ pc' = "fs_gone"
          /\ UNCHANGED <<nested, signals, raised, escaped>>
       \/ /\ Raise("finish_startup", OtherError)
          /\ UNCHANGED filtersRecomputed
    /\ UNCHANGED <<configVars, feedVars, movies_gone_handler, started, queue, fstep, liveStorage,
                   goneChecked, gone, env, handlerCalls,
                   finalizeScheduled, finalizeDone, parsed>>

\* line 164: movies_directory_gone() returns, or its config.get raises
FinishMoviesDirectoryGone ==
    /\ pc = "fs_gone"
    /\ \/ /\ goneChecked' = TRUE
          /\ gone' = movies_directory_gone(moviesDirPref, moviesDirState, remoteDownloads)
          /\ pc' = "fs_branch"
          /\ UNCHANGED <<nested, signals, raised, escaped>>
       \/ /\ Raise("finish_startup", OtherError)
          /\ UNCHANGED <<goneChecked, gone>>
    /\ UNCHANGED <<configVars, feedVars, movies_gone_handler, started, queue, fstep, liveStorage,
                   filtersRecomputed, env, handlerCalls,
                   finalizeScheduled, finalizeDone, parsed>>

\* lines 164-167 taking the else branch whatever the check returned
FinishBranchAlwaysSchedule(g) == "schedule"

\* lines 164-167 taking the if branch whatever the check returned
FinishBranchAlwaysHandler(g) == "handler"

\* lines 164-167: which branch finish_startup takes
FinishBranch(g) == IF g THEN "handler" ELSE "schedule"

\* line 165: __movies_gone_handler(), the handler installed at this moment
FinishCallHandler ==
    /\ pc = "fs_branch"
    /\ FinishBranch(gone) = "handler"
    /\ handlerCalls' = Append(handlerCalls, movies_gone_handler)
    /\ \/ /\ movies_gone_handler = "default_movies_gone_handler"
          /\ pc' = "default_handler"
          /\ UNCHANGED <<fstep, nested>>
       \/ /\ movies_gone_handler = "frontend_continue"   \* calls finalize_startup()
          /\ pc' = "finalize"
          /\ fstep' = 1
          /\ nested' = TRUE
       \/ /\ movies_gone_handler = "frontend_abort"      \* returns
          /\ pc' = "idle"
          /\ UNCHANGED <<fstep, nested>>
    /\ UNCHANGED <<configVars, feedVars, movies_gone_handler, started, queue, signals, liveStorage,
                   filtersRecomputed, goneChecked, gone, env, raised, escaped,
                   finalizeScheduled, finalizeDone, parsed>>

\* line 167: eventloop.addUrgentCall(finalize_startup, ...)
FinishSchedule ==
    /\ pc = "fs_branch"
    /\ FinishBranch(gone) = "schedule"
    /\ \/ /\ queue' = << "finalize_startup" >> \o queue
          /\ finalizeScheduled' = finalizeScheduled + 1
          /\ pc' = "idle"
          /\ UNCHANGED <<nested, signals, raised, escaped>>
       \/ /\ Raise("finish_startup", OtherError)
          /\ UNCHANGED <<queue, finalizeScheduled>>
    /\ UNCHANGED <<configVars, feedVars, movies_gone_handler, started, fstep, liveStorage,
                   filtersRecomputed, goneChecked, gone, env, handlerCalls,
                   finalizeDone, parsed>>

\* lines 249-259: default_movies_gone_handler, called inside finish_startup;
\* its config.get may raise before the signal is emitted
DefaultMoviesGoneHandler ==
    /\ pc = "default_handler"
    /\ \/ /\ signals' = Append(signals, Failure("Video Directory Missing",
                                   "Miro can't find your primary video directory"))
          /\ pc' = "idle"
          /\ UNCHANGED <<nested, raised, escaped>>
       \/ Raise("finish_startup", OtherError)
    /\ UNCHANGED <<configVars, feedVars, movies_gone_handler, started, queue, fstep, liveStorage,
                   filtersRecomputed, goneChecked, gone, env, handlerCalls,
                   finalizeScheduled, finalizeDone, parsed>>

----------------------------------------------------------------------------
(* setup_global_feed and setup_global_feeds, lines 96-108 and 197-202 *)

\* lines 198-202, in the order of the calls
GlobalFeedURLs ==
    << "dtv:manualFeed", "dtv:singleFeed", "dtv:search", "dtv:searchDownloads",
       "dtv:directoryfeed" >>

\* the URLs of the feeds a restored database may hold
FeedURLs == { "dtv:manualFeed", "dtv:search", "http://example.com/rss" }

\* a feed object of the database
Feed(id, url) == [id |-> id, url |-> url]

\* the databases startup may restore: feed i has id i
RestoredFeeds ==
    { [i \in 1..Len(urls) |-> Feed(i, urls[i])] : urls \in SeqsUpTo(FeedURLs, MaxFeeds) }

\* line 97: views.feeds.filterWithIndex(indexes.feedsByURL, url)
FeedView(fs, url) == SelectSeq(fs, LAMBDA f : f.url = url)

\* the id of the object feed.Feed(url) adds to the database, line 101: one no
\* restored feed has, and no feed added for another URL
NewFeedId(url) ==
    MaxFeeds + CHOOSE i \in 1..Len(GlobalFeedURLs) : GlobalFeedURLs[i] = url

\* lines 96-108 warning of the extra feeds and removing none
setup_global_feed_removing_none(db, url) ==
    LET feedView == FeedView(db.feeds, url)
    IN  IF Len(feedView) = 0
        THEN [feeds |-> Append(db.feeds, Feed(NewFeedId(url), url)),
              warnings |-> db.warnings]
        ELSE IF Len(feedView) > 1
        THEN [feeds |-> db.feeds,
              warnings |-> Append(db.warnings, "Too many db objects for " \o url)]
        ELSE db

\* lines 96-108: db is the database's feeds and the warnings reported so far
setup_global_feed(db, url) ==
    LET feedView == FeedView(db.feeds, url)
    IN  IF Len(feedView) = 0
        THEN [feeds |-> Append(db.feeds, Feed(NewFeedId(url), url)),
              warnings |-> db.warnings]
        ELSE IF Len(feedView) > 1
        THEN [feeds |-> SelectSeq(db.feeds, LAMBDA f : f.url # url \/ f = feedView[1]),
              warnings |-> Append(db.warnings, "Too many db objects for " \o url)]
        ELSE db

\* lines 197-202, from call i on
RECURSIVE SetupGlobalFeedsFrom(_, _)
SetupGlobalFeedsFrom(db, i) ==
    IF i > Len(GlobalFeedURLs)
    THEN db
    ELSE SetupGlobalFeedsFrom(setup_global_feed(db, GlobalFeedURLs[i]), i + 1)

\* lines 197-202
setup_global_feeds(db) == SetupGlobalFeedsFrom(db, 1)

----------------------------------------------------------------------------
(* finalize_startup, lines 169-195 *)

\* the statements of finalize_startup that call a collaborator, in order
FinalizeSteps ==
    << "startupDownloader",        \* line 171
       "setup_global_feeds",       \* line 174
       "setup_tabs",               \* line 175
       "create_engines",           \* line 176
       "setup_theme",              \* line 177
       "install_message_handler",  \* line 178
       "start_downloader",         \* line 182
       "reconnectDownloaders",     \* line 184
       "expire_items",             \* line 185
       "clear_orphans",            \* line 188
       "startThread",              \* line 191
       "startup_success",          \* line 193
       "addIdle" >>                \* line 195

\* the effects of finalize_startup with startup_success emitted by its first
\* statement
FinalizeEffectSuccessFirst(s) ==
    /\ signals' = IF s = "startupDownloader" THEN Append(signals, Success) ELSE signals
    /\ queue' = IF s = "addIdle" THEN Append(queue, "parse_command_line_args") ELSE queue
    /\ LET db == [feeds |-> feeds, warnings |-> warnings]
           after == IF s = "setup_global_feeds" THEN setup_global_feeds(db) ELSE db
       IN  feeds' = after.feeds /\ warnings' = after.warnings
    /\ UNCHANGED restoredFeeds

\* the effect of statement s of finalize_startup when it returns
FinalizeEffect(s) ==
    /\ signals' = IF s = "startup_success" THEN Append(signals, Success) ELSE signals
    /\ queue' = IF s = "addIdle" THEN Append(queue, "parse_command_line_args") ELSE queue
    /\ LET db == [feeds |-> feeds, warnings |-> warnings]
           after == IF s = "setup_global_feeds" THEN setup_global_feeds(db) ELSE db
       IN  feeds' = after.feeds /\ warnings' = after.warnings
    /\ UNCHANGED restoredFeeds

\* one statement of finalize_startup returns
FinalizeStep ==
    /\ pc = "finalize"
    /\ FinalizeEffect(FinalizeSteps[fstep])
    /\ finalizeDone' = Append(finalizeDone, FinalizeSteps[fstep])
    /\ IF fstep < Len(FinalizeSteps)
       THEN /\ fstep' = fstep + 1
            /\ UNCHANGED <<pc, nested>>
       ELSE /\ pc' = "idle"
            /\ nested' = FALSE
            /\ UNCHANGED fstep
    /\ UNCHANGED <<configVars, movies_gone_handler, started, liveStorage, filtersRecomputed,
                   goneChecked, gone, env, raised, escaped, handlerCalls,
                   finalizeScheduled, parsed>>

\* one statement of finalize_startup raises
FinalizeRaise ==
    /\ pc = "finalize"
    /\ Raise("finalize_startup", OtherError)
    /\ UNCHANGED <<configVars, feedVars, movies_gone_handler, started, queue, fstep, liveStorage,
                   filtersRecomputed, goneChecked, gone, env, handlerCalls,
                   finalizeScheduled, finalizeDone, parsed>>

----------------------------------------------------------------------------
(* config.py: descriptors, values and the platform backend *)

\* line 17
CHECK_CHANNELS_EVERY_X_MN ==
    [key |-> "checkChannelsEveryXMn", default |-> "60", platformSpecific |-> FALSE]

\* line 28
SUPPORT_DIRECTORY ==
    [key |-> "SupportDirectory", default |-> "None", platformSpecific |-> TRUE]

Descriptors == { CHECK_CHANNELS_EVERY_X_MN, SUPPORT_DIRECTORY }

Keys == { d.key : d \in Descriptors }

\* the values callers pass to set() and the backend may have persisted
Values == { "v1", "v2" }

\* the callbacks callers register
Callbacks == { "cb1" }

\* callbacks by what they do when called (line 74): "cb1" returns, "cb_raise"
\* raises, "cb_reenter" calls config.get or config.set
AllCallbacks == { "cb1", "cb_raise", "cb_reenter" }

\* the threads using the store; "main" is the one that imports config.py
ConfigThreads == { "main", "worker" }

Free == "free"

\* a key with no entry in a dict
Absent == "<absent>"

NoneValue == [tag |-> "None"]

Dict(items) == [tag |-> "dict", items |-> items]

\* line 42: dict()
EmptyDict == Dict([k \in Keys |-> Absent])

\* dict.get(key, default), line 57
DictGet(d, key, default) ==
    IF d.items[key] = Absent THEN default ELSE d.items[key]

\* d[key] = v, line 64
DictSet(d, key, v) == Dict([d.items EXCEPT ![key] = v])

\* what the backend may hold when the process starts
PersistedStates ==
    { NoneValue } \cup { Dict(f) : f \in [Keys -> Values \cup { Absent }] }

\* platformcfg.get(descriptor), line 55: the platform's own answer
PlatformGet(descriptor) == "platform:" \o descriptor.key

\* the thread's locals when it is in no call
NoDescriptor == [key |-> "", default |-> "", platformSpecific |-> FALSE]

NoValue == "<none>"

----------------------------------------------------------------------------
(* config.py: one statement per step, for a thread t *)

\* the step of t reads or writes a shared structure: recorded when t does not
\* hold the lock
Access(t, what, where) ==
    unlocked' = IF lock = t THEN {} ELSE { <<what, where>> }

\* the step touches neither __data nor __callbacks
NoAccess == unlocked' = {}

\* lines 68-70: __checkValidity(), called first by save, get and set; the
\* caller goes on at statement next
CheckValidity(t, next) ==
    /\ Access(t, "__data", "__checkValidity")
    /\ IF data.tag = "None"
       THEN /\ tpc' = [tpc EXCEPT ![t] = "load_acquire"]
            /\ retTo' = [retTo EXCEPT ![t] = next]
       ELSE /\ tpc' = [tpc EXCEPT ![t] = next]
            /\ UNCHANGED retTo
    /\ UNCHANGED lock

\* config.py imported with line 82 left out: nothing is loaded at import
ImportWithoutGet(t) ==
    /\ t = "main" /\ tpc[t] = "import"
    /\ tpc' = [tpc EXCEPT ![t] = "ready"]
    /\ imported' = TRUE
    /\ UNCHANGED <<startupVars, feedVars, invoked, inCallback, registrations, data, lock, callbacks, persisted, retTo,
                   desc, arg, value, todo, iterSize, failed, lastSet, everSet>>
    /\ NoAccess

\* line 82: get(SUPPORT_DIRECTORY) while config.py is imported
Import(t) ==
    /\ t = "main" /\ tpc[t] = "import"
    /\ CheckValidity(t, "get_acquire")
    /\ desc' = [desc EXCEPT ![t] = SUPPORT_DIRECTORY]
    /\ UNCHANGED <<startupVars, feedVars, invoked, inCallback, registrations, data, callbacks, persisted, imported, arg, value, todo,
                   iterSize, failed, lastSet, everSet>>

\* line 37: a caller calls load()
CallLoad(t) ==
    /\ imported /\ tpc[t] = "ready"
    /\ tpc' = [tpc EXCEPT ![t] = "load_acquire"]
    /\ retTo' = [retTo EXCEPT ![t] = "ready"]
    /\ UNCHANGED <<startupVars, feedVars, invoked, inCallback, registrations, data, lock, callbacks, persisted, imported, desc, arg, value,
                   todo, iterSize, failed, lastSet, everSet>>
    /\ NoAccess

\* line 39
LoadAcquire(t) ==
    /\ tpc[t] = "load_acquire"
    /\ lock = Free
    /\ lock' = t
    /\ tpc' = [tpc EXCEPT ![t] = "load_fetch"]
    /\ UNCHANGED <<startupVars, feedVars, invoked, inCallback, registrations, data, callbacks, persisted, imported, retTo, desc, arg, value,
                   todo, iterSize, failed, lastSet, everSet>>
    /\ NoAccess

\* line 40 keeping what __data already holds
LoadFetchKeepsData(t) ==
    /\ tpc[t] = "load_fetch"
    /\ Access(t, "__data", "load")
    /\ data' = IF data.tag = "None" THEN persisted ELSE data
    /\ lastSet' = [k \in Keys |-> NoValue]
    /\ tpc' = [tpc EXCEPT ![t] = "load_default"]
    /\ UNCHANGED <<startupVars, feedVars, invoked, inCallback, registrations, lock, callbacks, persisted, imported, retTo, desc, arg, value,
                   todo, iterSize, failed, everSet>>

\* line 40: __data = platformcfg.load()
LoadFetch(t) ==
    /\ tpc[t] = "load_fetch"
    /\ Access(t, "__data", "load")
    /\ data' = persisted
    /\ lastSet' = [k \in Keys |-> NoValue]
    /\ tpc' = [tpc EXCEPT ![t] = "load_default"]
    /\ UNCHANGED <<startupVars, feedVars, invoked, inCallback, registrations, lock, callbacks, persisted, imported, retTo, desc, arg, value,
                   todo, iterSize, failed, everSet>>

\* lines 41-42 keeping the None of platformcfg.load()
LoadDefaultKeepsNone(t) ==
    /\ tpc[t] = "load_default"
    /\ Access(t, "__data", "load")
    /\ tpc' = [tpc EXCEPT ![t] = "load_release"]
    /\ UNCHANGED <<startupVars, feedVars, invoked, inCallback, registrations, data, lock, callbacks, persisted, imported, retTo, desc, arg,
                   value, todo, iterSize, failed, lastSet, everSet>>

\* lines 41-42
LoadDefault(t) ==
    /\ tpc[t] = "load_default"
    /\ Access(t, "__data", "load")
    /\ data' = IF data.tag = "None" THEN EmptyDict ELSE data
    /\ tpc' = [tpc EXCEPT ![t] = "load_release"]
    /\ UNCHANGED <<startupVars, feedVars, invoked, inCallback, registrations, lock, callbacks, persisted, imported, retTo, desc, arg, value,
                   todo, iterSize, failed, lastSet, everSet>>

\* the return to the caller of load() with line 43 left out
LoadReturnHoldingLock(t) ==
    /\ tpc[t] = "load_release"
    /\ tpc' = [tpc EXCEPT ![t] = retTo[t]]
    /\ retTo' = [retTo EXCEPT ![t] = "ready"]
    /\ UNCHANGED <<startupVars, feedVars, invoked, inCallback, registrations, data, lock, callbacks, persisted, imported,
                   desc, arg, value, todo, iterSize, failed, lastSet, everSet>>
    /\ NoAccess

\* line 43, and the return to the caller of load()
LoadRelease(t) ==
    /\ tpc[t] = "load_release"
    /\ lock' = Free
    /\ tpc' = [tpc EXCEPT ![t] = retTo[t]]
    /\ retTo' = [retTo EXCEPT ![t] = "ready"]
    /\ UNCHANGED <<startupVars, feedVars, invoked, inCallback, registrations, data, callbacks, persisted, imported, desc, arg, value,
                   todo, iterSize, failed, lastSet, everSet>>
    /\ NoAccess

\* lines 45-46: a caller calls save()
CallSave(t) ==
    /\ imported /\ tpc[t] = "ready"
    /\ CheckValidity(t, "save_acquire")
    /\ UNCHANGED <<startupVars, feedVars, invoked, inCallback, registrations, data, callbacks, persisted, imported, desc, arg, value,
                   todo, iterSize, failed, lastSet, everSet>>

\* line 47
SaveAcquire(t) ==
    /\ tpc[t] = "save_acquire"
    /\ lock = Free
    /\ lock' = t
    /\ tpc' = [tpc EXCEPT ![t] = "save_write"]
    /\ UNCHANGED <<startupVars, feedVars, invoked, inCallback, registrations, data, callbacks, persisted, imported, retTo, desc, arg, value,
                   todo, iterSize, failed, lastSet, everSet>>
    /\ NoAccess

\* line 48: platformcfg.save(__data)
SaveWrite(t) ==
    /\ tpc[t] = "save_write"
    /\ Access(t, "__data", "save")
    /\ persisted' = data
    /\ tpc' = [tpc EXCEPT ![t] = "save_release"]
    /\ UNCHANGED <<startupVars, feedVars, invoked, inCallback, registrations, data, lock, callbacks, imported, retTo, desc, arg, value,
                   todo, iterSize, failed, lastSet, everSet>>

\* line 49
SaveRelease(t) ==
    /\ tpc[t] = "save_release"
    /\ lock' = Free
    /\ tpc' = [tpc EXCEPT ![t] = "ready"]
    /\ UNCHANGED <<startupVars, feedVars, invoked, inCallback, registrations, data, callbacks, persisted, imported, retTo, desc, arg, value,
                   todo, iterSize, failed, lastSet, everSet>>
    /\ NoAccess

\* lines 51-52: a caller calls get(descriptor)
CallGet(t, descriptor) ==
    /\ imported /\ tpc[t] = "ready"
    /\ CheckValidity(t, "get_acquire")
    /\ desc' = [desc EXCEPT ![t] = descriptor]
    /\ UNCHANGED <<startupVars, feedVars, invoked, inCallback, registrations, data, callbacks, persisted, imported, arg, value, todo,
                   iterSize, failed, lastSet, everSet>>

\* line 53 with a lock the thread that holds it may take again
GetAcquireReentrant(t) ==
    /\ tpc[t] = "get_acquire"
    /\ lock \in { Free, t }
    /\ lock' = t
    /\ tpc' = [tpc EXCEPT ![t] = "get_read"]
    /\ UNCHANGED <<startupVars, feedVars, invoked, inCallback, registrations, data, callbacks, persisted, imported, retTo, desc, arg, value,
                   todo, iterSize, failed, lastSet, everSet>>
    /\ NoAccess

\* line 53
GetAcquire(t) ==
    /\ tpc[t] = "get_acquire"
    /\ lock = Free
    /\ lock' = t
    /\ tpc' = [tpc EXCEPT ![t] = "get_read"]
    /\ UNCHANGED <<startupVars, feedVars, invoked, inCallback, registrations, data, callbacks, persisted, imported, retTo, desc, arg, value,
                   todo, iterSize, failed, lastSet, everSet>>
    /\ NoAccess

\* lines 54-57 returning the default whatever __data holds
GetValueIgnoringData(descriptor, d) ==
    IF descriptor.platformSpecific
    THEN PlatformGet(descriptor)
    ELSE descriptor.default

\* lines 54-57: the value get() reads
GetValue(descriptor, d) ==
    IF descriptor.platformSpecific
    THEN PlatformGet(descriptor)
    ELSE DictGet(d, descriptor.key, descriptor.default)

\* lines 54-57; a __data of None raises AttributeError and leaves the lock held
GetRead(t) ==
    /\ tpc[t] = "get_read"
    /\ IF desc[t].platformSpecific
       THEN /\ value' = [value EXCEPT ![t] = GetValue(desc[t], data)]
            /\ tpc' = [tpc EXCEPT ![t] = "get_release"]
            /\ UNCHANGED <<failed, desc>>
            /\ NoAccess
       ELSE /\ Access(t, "__data", "get")
            /\ IF data.tag = "None"
               THEN /\ failed' = failed \cup { <<t, "AttributeError">> }
                    /\ tpc' = [tpc EXCEPT ![t] = "ready"]
                    /\ desc' = [desc EXCEPT ![t] = NoDescriptor]
                    /\ UNCHANGED value
               ELSE /\ value' = [value EXCEPT ![t] = GetValue(desc[t], data)]
                    /\ tpc' = [tpc EXCEPT ![t] = "get_release"]
                    /\ UNCHANGED <<failed, desc>>
    /\ UNCHANGED <<startupVars, feedVars, invoked, inCallback, registrations, data, lock, callbacks, persisted, imported, retTo, arg,
                   todo, iterSize, lastSet, everSet>>

\* lines 58-59: release, and return value to the caller (a callback, when it
\* was a callback of the loop of line 73 that called get)
GetRelease(t) ==
    /\ tpc[t] = "get_release"
    /\ lock' = Free
    /\ tpc' = [tpc EXCEPT ![t] = IF inCallback[t] THEN "set_notify" ELSE "ready"]
    /\ inCallback' = [inCallback EXCEPT ![t] = FALSE]
    /\ imported' = TRUE
    /\ desc' = [desc EXCEPT ![t] = NoDescriptor]
    /\ value' = [value EXCEPT ![t] = NoValue]
    /\ UNCHANGED <<startupVars, feedVars, invoked, registrations, data, callbacks, persisted, retTo, arg, todo, iterSize,
                   failed, lastSet, everSet>>
    /\ NoAccess

\* lines 61-62: a caller calls set(descriptor, value)
CallSet(t, descriptor, v) ==
    /\ imported /\ tpc[t] = "ready"
    /\ CheckValidity(t, "set_acquire")
    /\ desc' = [desc EXCEPT ![t] = descriptor]
    /\ arg' = [arg EXCEPT ![t] = v]
    /\ UNCHANGED <<startupVars, feedVars, invoked, inCallback, registrations, data, callbacks, persisted, imported, value, todo,
                   iterSize, failed, lastSet, everSet>>

\* line 63
SetAcquire(t) ==
    /\ tpc[t] = "set_acquire"
    /\ lock = Free
    /\ lock' = t
    /\ tpc' = [tpc EXCEPT ![t] = "set_write"]
    /\ UNCHANGED <<startupVars, feedVars, invoked, inCallback, registrations, data, callbacks, persisted, imported, retTo, desc, arg, value,
                   todo, iterSize, failed, lastSet, everSet>>
    /\ NoAccess

\* line 64, then line 73 starting the loop over __callbacks; a __data of None
\* raises TypeError and leaves the lock held
SetWrite(t) ==
    /\ tpc[t] = "set_write"
    /\ Access(t, "__data", "set")
    /\ IF data.tag = "None"
       THEN /\ failed' = failed \cup { <<t, "TypeError">> }
            /\ tpc' = [tpc EXCEPT ![t] = "ready"]
            /\ desc' = [desc EXCEPT ![t] = NoDescriptor]
            /\ arg' = [arg EXCEPT ![t] = NoValue]
            /\ UNCHANGED <<data, lastSet, everSet, todo, iterSize>>
       ELSE /\ data' = DictSet(data, desc[t].key, arg[t])
            /\ lastSet' = [lastSet EXCEPT ![desc[t].key] = arg[t]]
            /\ everSet' = everSet \cup { desc[t].key }
            /\ todo' = [todo EXCEPT ![t] = callbacks]
            /\ iterSize' = [iterSize EXCEPT ![t] = Cardinality(callbacks)]
            /\ tpc' = [tpc EXCEPT ![t] = "set_notify"]
            /\ UNCHANGED <<failed, desc, arg>>
    /\ invoked' = [invoked EXCEPT ![t] = << >>]
    /\ UNCHANGED <<startupVars, feedVars, inCallback, registrations, lock, callbacks, persisted, imported, retTo, value>>

\* line 74, the call callback(key, value): "cb1" returns; "cb_raise" raises,
\* and nothing between line 74 and the caller of set catches it, so set() is
\* left with the lock held; "cb_reenter" calls config.get or config.set, which
\* run __checkValidity (line 52 or 62) and then wait for the lock (line 53 or 63)
CallCallback(t, cb) ==
    /\ invoked' = [invoked EXCEPT ![t] = Append(@, <<cb, desc[t].key, arg[t]>>)]
    /\ CASE cb = "cb_raise" ->
                /\ failed' = failed \cup { <<t, "CallbackError">> }
                /\ tpc' = [tpc EXCEPT ![t] = "ready"]
                /\ todo' = [todo EXCEPT ![t] = {}]
                /\ desc' = [desc EXCEPT ![t] = NoDescriptor]
                /\ arg' = [arg EXCEPT ![t] = NoValue]
                /\ UNCHANGED <<inCallback, retTo>>
         [] cb = "cb_reenter" ->
                /\ todo' = [todo EXCEPT ![t] = todo[t] \ { cb }]
                /\ inCallback' = [inCallback EXCEPT ![t] = TRUE]
                /\ \E op \in { "get_acquire", "set_acquire" } :
                       IF data.tag = "None"
                       THEN /\ tpc' = [tpc EXCEPT ![t] = "load_acquire"]
                            /\ retTo' = [retTo EXCEPT ![t] = op]
                       ELSE /\ tpc' = [tpc EXCEPT ![t] = op]
                            /\ UNCHANGED retTo
                /\ desc' = [desc EXCEPT ![t] = CHECK_CHANNELS_EVERY_X_MN]
                /\ UNCHANGED <<failed, arg>>
         [] OTHER ->
                /\ todo' = [todo EXCEPT ![t] = todo[t] \ { cb }]
                /\ UNCHANGED <<failed, tpc, desc, arg, inCallback, retTo>>

\* lines 73-74: one turn of the loop of __notifyListeners. A set whose size
\* changed since the loop began raises RuntimeError, which leaves set() with
\* the lock held; otherwise the next callback is called, or the loop ends.
SetNotify(t) ==
    /\ tpc[t] = "set_notify"
    /\ Access(t, "__callbacks", "__notifyListeners")
    /\ IF Cardinality(callbacks) # iterSize[t]
       THEN /\ failed' = failed \cup { <<t, "RuntimeError">> }
            /\ tpc' = [tpc EXCEPT ![t] = "ready"]
            /\ todo' = [todo EXCEPT ![t] = {}]
            /\ desc' = [desc EXCEPT ![t] = NoDescriptor]
            /\ arg' = [arg EXCEPT ![t] = NoValue]
            /\ UNCHANGED <<invoked, inCallback, retTo>>
       ELSE IF todo[t] \cap callbacks = {}
       THEN /\ tpc' = [tpc EXCEPT ![t] = "set_release"]
            /\ todo' = [todo EXCEPT ![t] = {}]
            /\ UNCHANGED <<failed, desc, arg, invoked, inCallback, retTo>>
       ELSE \E cb \in todo[t] \cap callbacks : CallCallback(t, cb)
    /\ UNCHANGED <<startupVars, feedVars, registrations, data, lock, callbacks, persisted, imported, value,
                   iterSize, lastSet, everSet>>

\* line 66, and the return to the caller (a callback, when it was a callback
\* of the loop of line 73 that called set)
SetRelease(t) ==
    /\ tpc[t] = "set_release"
    /\ lock' = Free
    /\ tpc' = [tpc EXCEPT ![t] = IF inCallback[t] THEN "set_notify" ELSE "ready"]
    /\ inCallback' = [inCallback EXCEPT ![t] = FALSE]
    /\ desc' = [desc EXCEPT ![t] = NoDescriptor]
    /\ arg' = [arg EXCEPT ![t] = NoValue]
    /\ invoked' = [invoked EXCEPT ![t] = << >>]
    /\ UNCHANGED <<startupVars, feedVars, registrations, data, callbacks, persisted, imported, retTo, value, todo,
                   iterSize, failed, lastSet, everSet>>
    /\ NoAccess

\* lines 31-32: set.add, which leaves a set that holds the callback as it is
addChangeCallback(t, callback) ==
    /\ imported /\ tpc[t] = "ready"
    /\ registrations[callback] < MaxRegistrations
    /\ Access(t, "__callbacks", "addChangeCallback")
    /\ callbacks' = callbacks \cup { callback }
    /\ registrations' = [registrations EXCEPT ![callback] = @ + 1]
    /\ UNCHANGED <<startupVars, feedVars, invoked, inCallback, data, lock, persisted, imported, tpc, retTo, desc, arg, value,
                   todo, iterSize, failed, lastSet, everSet>>

\* lines 34-35 leaving __callbacks as it is
removeChangeCallbackNoDiscard(t, callback) ==
    /\ imported /\ tpc[t] = "ready"
    /\ Access(t, "__callbacks", "removeChangeCallback")
    /\ registrations' = [registrations EXCEPT ![callback] = 0]
    /\ UNCHANGED <<startupVars, feedVars, invoked, inCallback, data, lock, callbacks, persisted, imported, tpc, retTo, desc, arg,
                   value, todo, iterSize, failed, lastSet, everSet>>

\* lines 34-35: set.discard, which raises nothing for a callback the set does
\* not hold
removeChangeCallback(t, callback) ==
    /\ imported /\ tpc[t] = "ready"
    /\ Access(t, "__callbacks", "removeChangeCallback")
    /\ callbacks' = callbacks \ { callback }
    /\ registrations' = [registrations EXCEPT ![callback] = 0]
    /\ UNCHANGED <<startupVars, feedVars, invoked, inCallback, data, lock, persisted, imported, tpc, retTo, desc, arg, value,
                   todo, iterSize, failed, lastSet, everSet>>

\* line 40 with platformcfg.load() raising: nothing in load(), in
\* __checkValidity or in get, set and save catches it, so it reaches the caller
\* with line 43 not run and __data not assigned
LoadFetchRaises(t) ==
    /\ tpc[t] = "load_fetch"
    /\ failed' = failed \cup { <<t, "LoadError">> }
    /\ tpc' = [tpc EXCEPT ![t] = "ready"]
    /\ retTo' = [retTo EXCEPT ![t] = "ready"]
    /\ desc' = [desc EXCEPT ![t] = NoDescriptor]
    /\ arg' = [arg EXCEPT ![t] = NoValue]
    /\ UNCHANGED <<startupVars, feedVars, invoked, inCallback, registrations, data, lock, callbacks, persisted, imported, value,
                   todo, iterSize, lastSet, everSet>>
    /\ NoAccess

\* line 48 with platformcfg.save() raising: line 49 is not run
SaveWriteRaises(t) ==
    /\ tpc[t] = "save_write"
    /\ Access(t, "__data", "save")
    /\ failed' = failed \cup { <<t, "SaveError">> }
    /\ tpc' = [tpc EXCEPT ![t] = "ready"]
    /\ UNCHANGED <<startupVars, feedVars, invoked, inCallback, registrations, data, lock, callbacks, persisted, imported, retTo,
                   desc, arg, value, todo, iterSize, lastSet, everSet>>

\* line 55 with platformcfg.get() raising: line 58 is not run
GetReadRaises(t) ==
    /\ tpc[t] = "get_read"
    /\ desc[t].platformSpecific
    /\ failed' = failed \cup { <<t, "GetError">> }
    /\ tpc' = [tpc EXCEPT ![t] = "ready"]
    /\ desc' = [desc EXCEPT ![t] = NoDescriptor]
    /\ UNCHANGED <<startupVars, feedVars, invoked, inCallback, registrations, data, lock, callbacks, persisted, imported, retTo,
                   arg, value, todo, iterSize, lastSet, everSet>>
    /\ NoAccess

----------------------------------------------------------------------------
(* The preference store *)

\* lines 4-6, with config.py not imported by anyone
ConfigAtRest(p) ==
    /\ data = NoneValue          \* line 4
    /\ lock = Free               \* line 5
    /\ callbacks = {}            \* line 6
    /\ persisted = p
    /\ imported = FALSE
    /\ retTo = [t \in ConfigThreads |-> "ready"]
    /\ desc = [t \in ConfigThreads |-> NoDescriptor]
    /\ arg = [t \in ConfigThreads |-> NoValue]
    /\ value = [t \in ConfigThreads |-> NoValue]
    /\ todo = [t \in ConfigThreads |-> {}]
    /\ iterSize = [t \in ConfigThreads |-> 0]
    /\ failed = {}
    /\ lastSet = [k \in Keys |-> NoValue]
    /\ everSet = {}
    /\ unlocked = {}
    /\ invoked = [t \in ConfigThreads |-> << >>]
    /\ inCallback = [t \in ConfigThreads |-> FALSE]
    /\ registrations = [cb \in AllCallbacks |-> 0]

NextConfig ==
    \E t \in ConfigThreads :
        \/ Import(t)
        \/ CallLoad(t) \/ LoadAcquire(t) \/ LoadFetch(t) \/ LoadDefault(t) \/ LoadRelease(t)
        \/ CallSave(t) \/ SaveAcquire(t) \/ SaveWrite(t) \/ SaveRelease(t)
        \/ \E d \in Descriptors : CallGet(t, d)
        \/ GetAcquire(t) \/ GetRead(t) \/ GetRelease(t)
        \/ \E d \in Descriptors, v \in Values : CallSet(t, d, v)
        \/ SetAcquire(t) \/ SetWrite(t) \/ SetNotify(t) \/ SetRelease(t)
        \/ \E cb \in Callbacks : addChangeCallback(t, cb)
        \/ \E cb \in Callbacks : removeChangeCallback(t, cb)

\* the store's operations, called by thread t with values from V
StoreCalls(t, V) ==
    \/ CallLoad(t)
    \/ CallSave(t)
    \/ \E d \in Descriptors : CallGet(t, d)
    \/ \E d \in Descriptors, v \in V : CallSet(t, d, v)

\* the statements of a call in progress
StoreSteps(t) ==
    \/ Import(t)
    \/ LoadAcquire(t) \/ LoadFetch(t) \/ LoadDefault(t) \/ LoadRelease(t)
    \/ SaveAcquire(t) \/ SaveWrite(t) \/ SaveRelease(t)
    \/ GetAcquire(t) \/ GetRead(t) \/ GetRelease(t)
    \/ SetAcquire(t) \/ SetWrite(t) \/ SetNotify(t) \/ SetRelease(t)

\* the statements that wait for the lock (lines 39, 47, 53 and 63)
StoreAcquires(t) ==
    LoadAcquire(t) \/ SaveAcquire(t) \/ GetAcquire(t) \/ SetAcquire(t)

\* callers registering and removing the callbacks of CB
StoreRegistrations(t, CB) ==
    \/ \E cb \in CB : addChangeCallback(t, cb)
    \/ \E cb \in CB : removeChangeCallback(t, cb)

\* the platform backend raising
BackendFaults(t) ==
    LoadFetchRaises(t) \/ SaveWriteRaises(t) \/ GetReadRaises(t)

\* the values callers set and what the backend holds at first in the
\* specifications below
StoreValues == { "v1" }

StorePersisted == { Dict([k \in Keys |-> "v2"]) }

\* the callbacks that do not return
FaultyCallbacks == { "cb_raise", "cb_reenter" }

\* threads, callbacks that do not return and a backend that may raise
NextStore ==
    \E t \in ConfigThreads :
        \/ StoreCalls(t, StoreValues)
        \/ StoreSteps(t)
        \/ StoreRegistrations(t, FaultyCallbacks)
        \/ BackendFaults(t)

\* one caller
NextSequential ==
    \/ StoreCalls("main", Values)
    \/ StoreSteps("main")
    \/ StoreRegistrations("main", AllCallbacks)
    \/ BackendFaults("main")

\* threads that call save, get and set and never load()
NextLazy ==
    \E t \in ConfigThreads :
        \/ CallSave(t)
        \/ \E d \in Descriptors : CallGet(t, d)
        \/ \E d \in Descriptors, v \in Values : CallSet(t, d, v)
        \/ StoreSteps(t)

\* threads, no callback ever registered, a backend that never raises
NextNoCallbacks ==
    \E t \in ConfigThreads :
        \/ StoreCalls(t, StoreValues)
        \/ StoreSteps(t)

----------------------------------------------------------------------------
(* The startup sequencer *)

\* lines 261 and 122: nothing called yet; the movies directory preference,
\* the directory, the downloads and the feeds of the database are as given
StartupFrom(pref, dir, dls, fs) ==
    /\ movies_gone_handler = "default_movies_gone_handler"   \* line 261
    /\ started = FALSE
    /\ queue = << >>
    /\ pc = "idle"
    /\ fstep = 1
    /\ nested = FALSE
    /\ signals = << >>
    /\ liveStorage = FALSE
    /\ filtersRecomputed = FALSE
    /\ goneChecked = FALSE
    /\ gone = FALSE
    /\ moviesDirPref = pref
    /\ moviesDirState = dir
    /\ remoteDownloads = dls
    /\ raised = {}
    /\ escaped = {}
    /\ handlerCalls = << >>
    /\ finalizeScheduled = 0
    /\ finalizeDone = << >>
    /\ parsed = FALSE
    /\ feeds = fs
    /\ restoredFeeds = fs
    /\ warnings = << >>

Init ==
    /\ \E pref \in MoviesDirPrefs, dir \in DirStates,
          dls \in SeqsUpTo(Downloaders, MaxDownloads) :
              StartupFrom(pref, dir, dls, << >>)
    /\ ConfigAtRest(NoneValue)
    /\ tpc = [t \in ConfigThreads |-> "ready"]

Frontend ==
    \/ \E h \in Handlers : install_movies_gone_handler(h)
    \/ startup

EventLoop ==
    \/ RunFinishStartup
    \/ RunFinalizeStartup
    \/ RunParseCommandLineArgs
    \/ FinishViewsInitialize
    \/ FinishRestore
    \/ FinishRecomputeFilters
    \/ FinishMoviesDirectoryGone
    \/ FinishCallHandler
    \/ FinishSchedule
    \/ DefaultMoviesGoneHandler
    \/ FinalizeStep
    \/ FinalizeRaise

Next == Frontend \/ EventLoop

Spec == Init /\ [][Next]_vars

\* the event loop thread keeps running the calls scheduled on it
SpecFair == Spec /\ WF_vars(EventLoop)

\* the startup sequencer over the databases of RestoredFeeds, with a movies
\* directory that is there or is missing
InitFeeds ==
    /\ \E dir \in { d \in DirStates : ~d.exists \/ d.contents # << >> },
          fs \in RestoredFeeds :
              StartupFrom(<< "/", "m" >>, dir, << >>, fs)
    /\ ConfigAtRest(NoneValue)
    /\ tpc = [t \in ConfigThreads |-> "ready"]

SpecFeeds == InitFeeds /\ [][Next]_vars

\* the startup sequencer before startup() is called
StartupAtRest ==
    StartupFrom(<< "/", "m" >>,
                [exists |-> TRUE, listable |-> TRUE, contents |-> << "f" >>],
                << >>, << >>)

\* the main thread is importing config.py and is about to run line 82
InitConfig ==
    /\ StartupAtRest
    /\ \E p \in PersistedStates : ConfigAtRest(p)
    /\ tpc = [t \in ConfigThreads |-> IF t = "main" THEN "import" ELSE "ready"]


\* the preference store used by the threads of ConfigThreads
SpecConfig == InitConfig /\ [][NextConfig]_vars

InitStore ==
    /\ StartupAtRest
    /\ \E p \in StorePersisted : ConfigAtRest(p)
    /\ tpc = [t \in ConfigThreads |-> IF t = "main" THEN "import" ELSE "ready"]

SpecStore == InitStore /\ [][NextStore]_vars

SpecSequential == InitConfig /\ [][NextSequential]_vars

\* the store loaded only by __checkValidity
SpecLazy == InitConfig /\ [][NextLazy]_vars

\* every thread in a call takes its next step, and a thread waiting for the
\* lock gets it when it is free again and again
SpecNoCallbacks ==
    /\ InitStore
    /\ [][NextNoCallbacks]_vars
    /\ \A t \in ConfigThreads : WF_vars(StoreSteps(t)) /\ SF_vars(StoreAcquires(t))

----------------------------------------------------------------------------
(* Properties of the startup sequencer *)

\* the movies directory exists, can be listed and has no entries
EmptyDirectory ==
    moviesDirState.exists /\ moviesDirState.listable /\ moviesDirState.contents = << >>

\* the movies directory exists, can be listed and has an entry
NonEmptyDirectory ==
    moviesDirState.exists /\ moviesDirState.listable /\ moviesDirState.contents # << >>

\* some download of views.remoteDownloads is finished and has a filename that
\* is the movies directory path followed by any characters
CompletedDownloadUnder ==
    \E i \in 1..Len(remoteDownloads) :
        /\ remoteDownloads[i].finished
        /\ \E n \in 0..Len(remoteDownloads[i].filename) :
               SubSeq(remoteDownloads[i].filename, 1, n) = MoviesDir(moviesDirPref)

FailureSignals == { i \in 1..Len(signals) : signals[i].name = "startup_failure" }

SuccessSignals == { i \in 1..Len(signals) : signals[i].name = "startup_success" }

RestoreCompleted == liveStorage /\ filtersRecomputed

\* C3: finalize_startup is on the event loop, or was ever put there, only
\* after finish_startup restored the database without raising and found the
\* movies directory present; finalize_startup runs only after the restore.
C3_FinalizeAfterRestore ==
    /\ (finalizeScheduled > 0 \/ \E i \in 1..Len(queue) : queue[i] = "finalize_startup")
          => /\ RestoreCompleted
             /\ goneChecked /\ gone = FALSE
             /\ \A r \in raised : r[1] # "finish_startup"
    /\ (pc = "finalize" \/ finalizeDone # << >>) => RestoreCompleted
    /\ (pc = "finalize" /\ ~nested) => finalizeScheduled > 0

C3_Witness ==
    pc = "finalize" /\ ~nested /\ fstep = 1 /\ finalizeScheduled = 1

\* C4 as stated: at most one terminal signal (startup_success or
\* startup_failure) is ever emitted in a startup attempt.
C4_AtMostOneTerminalSignal ==
    Cardinality(FailureSignals) + Cardinality(SuccessSignals) <= 1

\* C5: once startup() was called, a startup_success or startup_failure signal
\* is eventually emitted, unless a handler other than the default one was
\* invoked for a missing movies directory.
C5_EventuallyTerminal ==
    started ~> (signals # << >>
                \/ \E i \in 1..Len(handlerCalls) :
                       handlerCalls[i] # "default_movies_gone_handler")

C5_Witness ==
    /\ started /\ pc = "idle" /\ queue = << >>
    /\ handlerCalls = << "default_movies_gone_handler" >>
    /\ Cardinality(FailureSignals) = 1

\* C6: after finish_startup raised a StartupError exactly one signal has been
\* emitted, a startup_failure with that error's summary and description, and
\* finalize_startup is neither scheduled nor run.
C6_StartupErrorReported ==
    <<"finish_startup", "StartupError">> \in raised =>
        /\ signals = << Failure(DatabaseTooNew.summary, DatabaseTooNew.description) >>
        /\ finalizeScheduled = 0
        /\ \A i \in 1..Len(queue) : queue[i] # "finalize_startup"
        /\ pc # "finalize"
        /\ finalizeDone = << >>

C6_Witness ==
    /\ <<"finish_startup", "StartupError">> \in raised
    /\ pc = "idle" /\ queue = << >>

\* C7: after a statement of finalize_startup raised an exception that is not
\* a StartupError, exactly one startup_failure has been emitted, it has the
\* summary "Unknown Error", and no exception reached the task runner.
C7_FinalizeFaultReported ==
    <<"finalize_startup", "Exception">> \in raised =>
        /\ Cardinality(FailureSignals) = 1
        /\ \A i \in FailureSignals : signals[i].summary = "Unknown Error"
        /\ escaped = {}
        /\ pc = "idle"

C7_Witness ==
    /\ <<"finalize_startup", "Exception">> \in raised
    /\ Len(finalizeDone) = 4
    /\ signals = << Failure("Unknown Error", "An unknown error prevented Miro from startup") >>

----------------------------------------------------------------------------
(* Properties of the preference store *)

\* thread t has read the value get() will return and still holds the lock
GetHasRead(t) == tpc[t] = "get_release"

\* C8 as stated: for every descriptor D, platform-specific or not, a get(D)
\* that follows a set(D, v) with no load in between returns v.
C8_GetReturnsLastSet ==
    \A t \in ConfigThreads :
        GetHasRead(t) /\ lastSet[desc[t].key] # NoValue
            => value[t] = lastSet[desc[t].key]

\* what the backend has persisted for a key, or the default when it has nothing
PersistedOrDefault(descriptor) ==
    IF persisted.tag = "dict" /\ persisted.items[descriptor.key] # Absent
    THEN persisted.items[descriptor.key]
    ELSE descriptor.default

\* C9 as stated: for a descriptor D that is not platform-specific, get(D)
\* before any set(D, _) returns D.default, whatever the backend has persisted.
C9_GetReturnsDefault ==
    \A t \in ConfigThreads :
        GetHasRead(t) /\ ~desc[t].platformSpecific /\ desc[t].key \notin everSet
            => value[t] = desc[t].default

\* C9 amended: for a descriptor D that is not platform-specific, get(D) before
\* any set(D, _) returns the value the backend has persisted under D.key, and
\* D.default when it has persisted none.
C9_GetReturnsPersistedOrDefault ==
    \A t \in ConfigThreads :
        GetHasRead(t) /\ ~desc[t].platformSpecific /\ desc[t].key \notin everSet
            => value[t] = PersistedOrDefault(desc[t])

C9_Witness ==
    \E t \in ConfigThreads :
        /\ GetHasRead(t) /\ ~desc[t].platformSpecific /\ desc[t].key \notin everSet
        /\ persisted.tag = "dict" /\ persisted.items[desc[t].key] = "v2"
        /\ value[t] = "v2"
        /\ everSet # {}

\* C10 as stated: every step that reads or writes __data or __callbacks is
\* taken by the thread that holds the lock (stated here for the steps taken
\* once config.py is imported and every thread may call the store).
C10_SharedStateOnlyUnderLock == imported => unlocked = {}

----------------------------------------------------------------------------
(* Callbacks of the preference store *)

\* the statements a thread runs while it holds the lock
LockedSections ==
    { "load_fetch", "load_default", "load_release", "save_write", "save_release",
      "get_read", "get_release", "set_write", "set_notify", "set_release" }

\* the statements that wait for the lock
AcquireStatements == { "load_acquire", "save_acquire", "get_acquire", "set_acquire" }

\* C11: a thread whose callback, called by set, has called get or set holds
\* the lock and waits for it, and stays so at every later step: the callback
\* never returns; no other thread is inside a locked section, and a load, save,
\* get or set another thread is in, or starts, never returns either.
C11_ReentrantCallbackBlocksForever ==
    [][\A t \in ConfigThreads :
          inCallback[t] =>
              /\ lock = t /\ lock' = t
              /\ tpc[t] \in { "get_acquire", "set_acquire" }
              /\ tpc'[t] = tpc[t] /\ inCallback'[t]
              /\ \A u \in ConfigThreads \ { t } :
                    /\ tpc[u] \notin LockedSections
                    /\ tpc'[u] \notin LockedSections
                    /\ tpc[u] # "ready" => tpc'[u] # "ready"]_vars

C11_Witness ==
    \E t, u \in ConfigThreads :
        /\ t # u
        /\ inCallback[t] /\ tpc[t] = "get_acquire" /\ lock = t
        /\ tpc[u] \in AcquireStatements

\* how often the set() call of thread t has called callback cb
CountOf(t, cb) ==
    Cardinality({ i \in 1..Len(invoked[t]) : invoked[t][i][1] = cb })

\* C12: with one caller, a set(D, v) that has gone through its callbacks has
\* called every callback registered once or more since it was last removed
\* exactly once, with (D.key, v), and has called no other callback; no callback
\* is ever called twice by one set; and a removeChangeCallback of a callback
\* that is not registered changes nothing and raises nothing.
C12_RegisteredCallbackCalledOnce ==
    /\ [](\A t \in ConfigThreads :
            /\ \A cb \in AllCallbacks : CountOf(t, cb) <= 1
            /\ \A i \in 1..Len(invoked[t]) :
                   tpc[t] \in { "set_notify", "set_release" } =>
                       invoked[t][i][2] = desc[t].key /\ invoked[t][i][3] = arg[t]
            /\ tpc[t] = "set_release" =>
                   \A cb \in AllCallbacks :
                       CountOf(t, cb) = IF registrations[cb] >= 1 THEN 1 ELSE 0)
    /\ [][(tpc' = tpc /\ invoked' = invoked /\ registrations' = registrations)
              => callbacks' = callbacks /\ failed' = failed /\ data' = data]_vars

C12_Witness ==
    /\ tpc["main"] = "set_release"
    /\ registrations["cb1"] >= 2
    /\ invoked["main"] = << <<"cb1", CHECK_CHANNELS_EVERY_X_MN.key, "v1">> >>
    /\ callbacks = { "cb1" }

----------------------------------------------------------------------------
(* Loading and saving *)

\* the statements of get, set and save that read or write __data (lines 48,
\* 57 and 64)
MapStatements == { "get_read", "set_write", "save_write" }

\* C13: whenever a thread that holds the lock is at the statement of get, set
\* or save that reads or writes __data, __data is a mapping and not None.
C13_MapLoadedInLockedBodies ==
    \A t \in ConfigThreads :
        lock = t /\ tpc[t] \in MapStatements => data.tag = "dict"

C13_Witness ==
    \E t \in ConfigThreads :
        /\ lock = t /\ tpc[t] = "set_write"
        /\ persisted = NoneValue
        /\ data = EmptyDict

\* C14 as stated: an exception platformcfg.load() raises during load() does
\* not reach the caller of the store: load() returns normally (stated here for
\* the calls made once config.py is imported).
C14_LoadErrorSwallowed ==
    imported => \A t \in ConfigThreads : <<t, "LoadError">> \notin failed

\* what load() leaves in __data for a backend that holds p (lines 40-42)
Loaded(p) == IF p.tag = "None" THEN EmptyDict ELSE p

\* C15: when load() is about to return, __data is exactly what the backend
\* holds, or the empty mapping when it holds nothing (so a second load() changes
\* nothing); when save() is about to return, the backend holds exactly __data;
\* and a get(D), for D not platform-specific, with no set(D, _) since the last
\* load, returns what the backend holds under D.key, or D.default: the value
\* of a set that was saved, and not the value of a set that was not.
C15_LoadReplacesWithPersisted ==
    \A t \in ConfigThreads :
        /\ tpc[t] = "load_release" => data = Loaded(persisted)
        /\ tpc[t] = "save_release" => persisted = data
        /\ GetHasRead(t) /\ ~desc[t].platformSpecific /\ lastSet[desc[t].key] = NoValue
               => value[t] = PersistedOrDefault(desc[t])

C15_Witness ==
    \E t \in ConfigThreads :
        /\ GetHasRead(t) /\ ~desc[t].platformSpecific
        /\ desc[t].key \in everSet /\ lastSet[desc[t].key] = NoValue
        /\ persisted.tag = "dict" /\ persisted.items[desc[t].key] = "v1"
        /\ persisted.items[SUPPORT_DIRECTORY.key] = Absent
        /\ value[t] = "v1"

----------------------------------------------------------------------------
(* Global feeds *)

\* the URLs setup_global_feeds is called for
GlobalURLs == { GlobalFeedURLs[i] : i \in 1..Len(GlobalFeedURLs) }

\* the warnings recorded for the feeds of url
WarningsFor(url) ==
    { i \in 1..Len(warnings) : warnings[i] = "Too many db objects for " \o url }

\* finalize_startup has run setup_global_feeds
GlobalFeedsSetUp == Len(finalizeDone) >= 2

\* C16: once setup_global_feeds has run, for every global URL exactly one feed
\* with that URL exists: with no such feed restored it is a new one, with one
\* restored it is that one and no warning is recorded, with several restored it
\* is the first of them and exactly one warning is recorded for the URL; feeds
\* of other URLs are as restored, every warning is one of these, and no
\* startup_failure is emitted unless a statement of startup raises.
C16_OneFeedPerGlobalURL ==
    /\ ~GlobalFeedsSetUp => feeds = restoredFeeds /\ warnings = << >>
    /\ GlobalFeedsSetUp =>
        /\ \A url \in GlobalURLs :
              LET before == FeedView(restoredFeeds, url)
                  after == FeedView(feeds, url)
                  n == Len(before)
              IN  /\ Len(after) = 1
                  /\ n = 0 => /\ \A i \in 1..Len(restoredFeeds) :
                                    restoredFeeds[i].id # after[1].id
                              /\ WarningsFor(url) = {}
                  /\ n = 1 => after = before /\ WarningsFor(url) = {}
                  /\ n > 1 => after[1] = before[1] /\ Cardinality(WarningsFor(url)) = 1
        /\ SelectSeq(feeds, LAMBDA f : f.url \notin GlobalURLs)
              = SelectSeq(restoredFeeds, LAMBDA f : f.url \notin GlobalURLs)
        /\ Len(warnings) = Cardinality({ url \in GlobalURLs : WarningsFor(url) # {} })
        /\ Len(feeds) = Len(GlobalFeedURLs)
              + Len(SelectSeq(restoredFeeds, LAMBDA f : f.url \notin GlobalURLs))
    /\ GlobalFeedsSetUp /\ raised = {} => FailureSignals = {}

C16_Witness ==
    /\ GlobalFeedsSetUp
    /\ Len(FeedView(restoredFeeds, "dtv:manualFeed")) > 1
    /\ Len(FeedView(restoredFeeds, "dtv:search")) = 1
    /\ Len(warnings) = 1
    /\ FeedView(feeds, "dtv:manualFeed") = << restoredFeeds[1] >>

----------------------------------------------------------------------------
(* The movies-gone handler and the order of finalize_startup *)

\* C17: when finish_startup has found the movies directory gone it has called
\* one handler, the one installed at the moment of the call, and has scheduled
\* no finalize_startup; when that handler is the default one and has returned
\* or raised, exactly one startup_failure and no startup_success were emitted.
\* When it has found the directory present it has called no handler and has
\* scheduled finalize_startup exactly once (not at all when scheduling raised).
C17_GoneCallsInstalledHandler ==
    /\ [](/\ ~goneChecked => handlerCalls = << >> /\ finalizeScheduled = 0
          /\ goneChecked /\ gone /\ pc # "fs_branch"
                => Len(handlerCalls) = 1 /\ finalizeScheduled = 0
          /\ handlerCalls = << "default_movies_gone_handler" >> /\ pc = "idle"
                => Cardinality(FailureSignals) = 1 /\ SuccessSignals = {}
          /\ goneChecked /\ ~gone
                => /\ handlerCalls = << >>
                   /\ finalizeScheduled <= 1
                   /\ pc # "fs_branch" /\ <<"finish_startup", "Exception">> \notin raised
                         => finalizeScheduled = 1)
    /\ [][handlerCalls' # handlerCalls
              => handlerCalls' = Append(handlerCalls, movies_gone_handler)]_vars

C17_Witness ==
    /\ goneChecked /\ gone
    /\ handlerCalls = << "frontend_continue" >>
    /\ finalizeScheduled = 0
    /\ SuccessSignals # {}

----------------------------------------------------------------------------
(* The lock *)

\* thread t is in no call of the store
AtRest(t) == tpc[t] \in { "ready", "import" }

\* C18: with no callback registered and a backend that does not raise, at most
\* one thread is inside a locked section and it is the one that holds the lock,
\* the lock is free whenever no thread is in a call, and under fair scheduling
\* every call a thread is in returns.
C18_NoDeadlockWithoutCallbacks ==
    /\ [](\A t \in ConfigThreads :
             tpc[t] \in LockedSections
                 => /\ lock = t
                    /\ \A u \in ConfigThreads \ { t } : tpc[u] \notin LockedSections)
    /\ []((\A t \in ConfigThreads : AtRest(t)) => lock = Free)
    /\ \A t \in ConfigThreads : (tpc[t] # "ready") ~> (tpc[t] = "ready")

C18_Witness ==
    \E t, u \in ConfigThreads :
        /\ t # u
        /\ tpc[t] = "set_notify" /\ lock = t
        /\ tpc[u] \in AcquireStatements
        /\ callbacks = {} /\ failed = {}

\* parse_command_line_args is scheduled, or has run
ParseScheduled ==
    parsed \/ \E i \in 1..Len(queue) : queue[i] = "parse_command_line_args"

\* the place of signals.system.startup_success() among the statements of
\* finalize_startup
SuccessStep ==
    CHOOSE n \in 1..Len(FinalizeSteps) : FinalizeSteps[n] = "startup_success"

\* C19: the statements of finalize_startup that have returned are its first
\* ones, in order; startup_success is emitted only when every statement before
\* it has returned; parse_command_line_args is scheduled only when
\* startup_success was emitted and every statement has returned; and when a
\* statement before startup_success has raised, there is no startup_success
\* and nothing is scheduled.
C19_SuccessAfterEveryStep ==
    /\ Len(finalizeDone) <= Len(FinalizeSteps)
    /\ finalizeDone = SubSeq(FinalizeSteps, 1, Len(finalizeDone))
    /\ SuccessSignals # {} => Len(finalizeDone) >= SuccessStep
    /\ ParseScheduled => SuccessSignals # {} /\ finalizeDone = FinalizeSteps
    /\ <<"finalize_startup", "Exception">> \in raised /\ Len(finalizeDone) < SuccessStep
          => SuccessSignals = {} /\ ~ParseScheduled

C19_Witness ==
    /\ SuccessSignals # {}
    /\ finalizeDone = FinalizeSteps
    /\ parsed
    /\ raised = {}

\* C20 as stated: a thread whose call of the store has finished, by returning
\* or by raising, does not hold the lock (stated here for the calls made once
\* config.py is imported).
C20_LockFreeAfterEveryCall ==
    imported => \A t \in ConfigThreads : tpc[t] = "ready" => lock # t

\* C21: with threads that never call load(), no load runs once a key was
\* set: for every key ever set, __data holds the value of the last set of that
\* key, and a get(D) for a D that is not platform-specific returns it.
C21_NoWriteLostToLazyLoad ==
    /\ \A k \in everSet :
          /\ lastSet[k] # NoValue
          /\ data.tag = "dict" /\ data.items[k] = lastSet[k]
    /\ \A t \in ConfigThreads :
          GetHasRead(t) /\ ~desc[t].platformSpecific /\ desc[t].key \in everSet
              => value[t] = lastSet[desc[t].key]

C21_Witness ==
    \E t, u \in ConfigThreads :
        /\ t # u
        /\ GetHasRead(u) /\ ~desc[u].platformSpecific
        /\ value[u] = "v1" /\ lastSet[desc[u].key] = "v1"
        /\ persisted.tag = "dict" /\ persisted.items[desc[u].key] = "v2"
        /\ tpc[t] = "set_acquire"

====
